---- MODULE Spec2Model ----
(***************************************************************************)
(* A model of the blocked Bunch-Kaufman kernel Rlasyf (MPACK mlapack) and  *)
(* of the OpenMP dot product Rdot (MPACK mblas, mpfr build).               *)
(*                                                                         *)
(* REAL values are modelled as exact rationals <<numerator, denominator>>  *)
(* in lowest terms with a positive denominator.  A zero denominator stands *)
(* for a value that is not a finite number: the result of a division by    *)
(* zero, or memory the caller never initialised (the scratch matrix W, the *)
(* triangle of A the selected mode does not reference).                    *)
(* Matrices are flat column-major arrays indexed from 0, addressed exactly *)
(* as in the source: element (r, c) of A is A[(r - 1) + (c - 1) * lda].    *)
(***************************************************************************)
EXTENDS Integers, Sequences, FiniteSets, TLC

\* ---------------------------------------------------------------- bounds
\* Largest matrix order n and largest requested block size nb of a call.
MaxN == 3
MaxNb == 3
\* Largest vector length and number of worker threads of an Rdot call.
MaxLen == 3
MaxThreads == 2

\* Entries of the input matrices: diagonal and off-diagonal values.
DiagVals == {0, 1, 5}
OffVals == {-2, 0, 5}
\* Values the caller's kb variable and ipiv entries hold before the call.
KbBefore == {7}
IpivBefore == {0}
\* Values a read outside the bounds of ipiv may produce.
Garbage == {-1, 0, 1}
\* Entries of the vectors handed to Rdot.
DotVals == {-1, 2}

\* ------------------------------------------------------- exact REAL values
IAbs(x) == IF x < 0 THEN -x ELSE x

RECURSIVE GCD(_, _)
GCD(a, b) == IF b = 0 THEN a ELSE GCD(b, a % b)

NonFinite == <<1, 0>>
IsFinite(x) == x[2] # 0

RNorm(p, q) ==
  IF q = 0 THEN NonFinite
  ELSE LET g == GCD(IAbs(p), IAbs(q))
           s == IF q < 0 THEN -1 ELSE 1
       IN  <<s * (p \div g), s * (q \div g)>>

R(i) == <<i, 1>>
Zero == R(0)
One == R(1)

RAdd(x, y) ==
  IF IsFinite(x) /\ IsFinite(y) THEN RNorm(x[1] * y[2] + y[1] * x[2], x[2] * y[2])
  ELSE NonFinite
RNeg(x) == IF IsFinite(x) THEN <<-x[1], x[2]>> ELSE NonFinite
RSub(x, y) == RAdd(x, RNeg(y))
RMul(x, y) ==
  IF IsFinite(x) /\ IsFinite(y) THEN RNorm(x[1] * y[1], x[2] * y[2])
  ELSE NonFinite
\* x / y; a zero (or non-finite) divisor gives a non-finite quotient.
RDiv(x, y) ==
  IF IsFinite(x) /\ IsFinite(y) /\ y[1] # 0 THEN RNorm(x[1] * y[2], x[2] * y[1])
  ELSE NonFinite
RAbs(x) == IF IsFinite(x) THEN <<IAbs(x[1]), x[2]>> ELSE NonFinite
\* x >= y; a non-finite value compares as larger than every finite one.
RGe(x, y) ==
  IF ~IsFinite(x) THEN TRUE
  ELSE IF ~IsFinite(y) THEN FALSE
  ELSE x[1] * y[2] >= y[1] * x[2]
RMax(x, y) == IF RGe(x, y) THEN x ELSE y

\* x >= alpha * y for x, y >= 0, where alpha = (1 + sqrt(17)) / 8:
\* with q = x / y, 8q - 1 >= sqrt(17), i.e. 8q >= 1 and (8q - 1)^2 >= 17.
GeAlpha(x, y) ==
  IF ~IsFinite(x) \/ ~IsFinite(y) THEN FALSE
  ELSE IF y[1] = 0 THEN TRUE
  ELSE LET q == RDiv(x, y)
           p == 8 * q[1] - q[2]
       IN  p >= 0 /\ p * p >= 17 * q[2] * q[2]

\* Integer division as C++ performs it (truncation toward zero), b > 0.
CDiv(a, b) == IF a >= 0 THEN a \div b ELSE -((-a) \div b)
Min(a, b) == IF a <= b THEN a ELSE b

\* ------------------------------------------------------- vector primitives
\* The positions ox, ox + inc, ... a strided view of cnt elements covers.
View(cnt, ox, inc) == {ox + i * inc : i \in 0 .. cnt - 1}
Pos(p, ox, inc) == (p - ox) \div inc

\* Rcopy(cnt, x + ox, incx, y + oy, incy): the array y after the copy.
Rcopy(cnt, x, ox, incx, y, oy, incy) ==
  [p \in DOMAIN y |->
     IF p \in View(cnt, oy, incy) THEN x[ox + Pos(p, oy, incy) * incx] ELSE y[p]]

\* Rswap(cnt, a + ox, incx, a + oy, incy) of two disjoint views of one array.
Rswap(cnt, a, ox, incx, oy, incy) ==
  [p \in DOMAIN a |->
     IF p \in View(cnt, ox, incx) THEN a[oy + Pos(p, ox, incx) * incy]
     ELSE IF p \in View(cnt, oy, incy) THEN a[ox + Pos(p, oy, incy) * incx]
     ELSE a[p]]

\* Rscal(cnt, r, x + ox, incx): the array x after the scaling.
Rscal(cnt, r, x, ox, incx) ==
  [p \in DOMAIN x |-> IF p \in View(cnt, ox, incx) THEN RMul(r, x[p]) ELSE x[p]]

\* iRamax(cnt, x + ox, incx): 1-based index of the first element of largest
\* absolute value, 0 when cnt < 1.
iRamax(cnt, x, ox, incx) ==
  IF cnt < 1 THEN 0
  ELSE CHOOSE i \in 1 .. cnt :
         /\ \A j \in 1 .. cnt :
              RGe(RAbs(x[ox + (i - 1) * incx]), RAbs(x[ox + (j - 1) * incx]))
         /\ \A j \in 1 .. i - 1 :
              ~RGe(RAbs(x[ox + (j - 1) * incx]), RAbs(x[ox + (i - 1) * incx]))

\* ------------------------------------------------------- matrix primitives
\* sum over l in 0 .. cnt - 1 of a[oa + l * inca] * b[ob + l * incb]
RECURSIVE DotRow(_, _, _, _, _, _, _)
DotRow(cnt, a, oa, inca, b, ob, incb) ==
  IF cnt <= 0 THEN Zero
  ELSE RAdd(DotRow(cnt - 1, a, oa, inca, b, ob, incb),
            RMul(a[oa + (cnt - 1) * inca], b[ob + (cnt - 1) * incb]))

\* Rgemv("No transpose", m, nc, -One, a + oa, lda, x + ox, incx, One, y + oy, 1):
\* y := y - a * x for the m-by-nc matrix a; the array y after the call.
Rgemv(m, nc, a, oa, ld, x, ox, incx, y, oy) ==
  IF m <= 0 \/ nc <= 0 THEN y
  ELSE [p \in DOMAIN y |->
          IF p \in View(m, oy, 1)
          THEN RSub(y[p], DotRow(nc, a, oa + (p - oy), ld, x, ox, incx))
          ELSE y[p]]

\* Rgemm("No transpose", "Transpose", m, nc, kc, -One, a + oa, lda, b + ob, ldb,
\* One, c + oc, ldc): c := c - a * b' ; the array c after the call.
Rgemm(m, nc, kc, a, oa, ld, b, ob, ldb, c, oc, ldc) ==
  IF m <= 0 \/ nc <= 0 \/ kc <= 0 THEN c
  ELSE [p \in DOMAIN c |->
          IF \E i \in 0 .. m - 1, jc \in 0 .. nc - 1 : p = oc + i + jc * ldc
          THEN LET jc == CHOOSE jc \in 0 .. nc - 1 :
                           \E i \in 0 .. m - 1 : p = oc + i + jc * ldc
                   i == p - oc - jc * ldc
               IN  RSub(c[p], DotRow(kc, a, oa + i, ld, b, ob + jc, ldb))
          ELSE c[p]]

\* ------------------------------------------------------------------ state
VARIABLES
  uplo, n, nb,        \* arguments of the Rlasyf call
  callerKb,           \* the variable of the caller that is passed as kb
  kb,                 \* the parameter kb of Rlasyf (INTEGER kb: a copy)
  A, ipiv, w, info,   \* the caller's buffers and *info
  k, kw, imax, j,     \* locals of Rlasyf: loop indices
  kp, kstep,          \* locals of Rlasyf: the pivot chosen in this iteration
  absakk, colmax, rowmax,   \* locals of Rlasyf: the measured magnitudes
  pc,                 \* position in Rlasyf: "main" (top of the main loop),
                      \* "pivot", "commit", "store", "update", "done", "trap"
  A0,                 \* the symmetric input matrix, as integers
  perm,               \* perm[i]: the original index of the row/column now at i
  last,               \* what the latest main-loop iteration measured and did
  faults,             \* "realdiv", "intdiv", "oob" : exceptional events so far
  stalled,            \* a panel iteration of the update loop left j unchanged
  undoReads,          \* the indices j at which the last loop read ipiv[j - 1]
  dn, dx, dy, incx, incy,   \* arguments of the Rdot call
  nthreads,           \* size of the team of the parallel region
  ix, iy, di,         \* locals of Rdot on the sequential path
  todo,               \* iterations of the omp for loop not yet handed out
  templ, hits,        \* templ[t]: private partial sum; hits[i]: times i was added
  temp, merges,       \* the shared total; merges[t]: times t merged
  owner, reg,         \* thread inside the critical section (0: none); reg[t]:
                      \* the value of temp thread t read inside it
  wpc, dpc, ret       \* worker positions, Rdot position, returned value

lasyfVars == <<uplo, n, nb, callerKb, kb, A, ipiv, w, info, k, kw, imax, j,
               kp, kstep, absakk, colmax, rowmax, pc,
               A0, perm, last, faults, stalled, undoReads>>
dotVars == <<dn, dx, dy, incx, incy, nthreads, ix, iy, di, todo, templ, hits, temp,
             merges, owner, reg, wpc, dpc, ret>>
vars == <<lasyfVars, dotVars>>

\* Leading dimensions: the caller passes the smallest legal ones.
lda == IF n > 1 THEN n ELSE 1
ldw == IF n > 1 THEN n ELSE 1

\* The record of a main-loop iteration before it has done anything.
NoStep ==
  [kind |-> "none", k |-> 0, wdiag |-> Zero, woff |-> Zero,
   copied |-> FALSE, recip |-> FALSE, pivot |-> Zero, stored |-> FALSE]

\* The symmetric matrices of order m with entries from DiagVals and OffVals.
SymMatrices(m) ==
  {[rc \in (1 .. m) \X (1 .. m) |->
      IF rc[1] = rc[2] THEN d[rc[1]]
      ELSE IF rc[1] < rc[2] THEN o[rc] ELSE o[<<rc[2], rc[1]>>]] :
     d \in [1 .. m -> DiagVals],
     o \in [{rc \in (1 .. m) \X (1 .. m) : rc[1] < rc[2]} -> OffVals]}

\* The buffer A the caller hands over: only the triangle named by uplo is set.
Buffer(S, m, ul) ==
  LET ld == IF m > 1 THEN m ELSE 1
  IN  [p \in 0 .. ld * m - 1 |->
         LET r == (p % ld) + 1
             c == (p \div ld) + 1
         IN  IF (ul = "U" /\ r <= c) \/ (ul # "U" /\ r >= c) THEN R(S[<<r, c>>])
             ELSE NonFinite]

\* No Rdot call is under way.
DotIdle ==
  /\ dn = 0 /\ dx = <<>> /\ dy = <<>> /\ incx = 1 /\ incy = 1 /\ nthreads = 0
  /\ ix = 0 /\ iy = 0 /\ di = 0 /\ todo = {}
  /\ templ = <<>> /\ hits = <<>> /\ temp = 0 /\ merges = <<>>
  /\ owner = 0 /\ reg = <<>>
  /\ wpc = <<>> /\ dpc = "idle" /\ ret = 0

Init ==
  /\ uplo \in {"U", "L"}
  /\ n \in 0 .. MaxN
  /\ nb \in 0 .. MaxNb
  /\ callerKb \in KbBefore
  /\ kb = callerKb
  /\ A0 \in SymMatrices(n)
  /\ A = Buffer(A0, n, uplo)
  /\ ipiv \in [1 .. n -> IpivBefore]
  /\ w = [p \in 0 .. (IF n > 1 THEN n ELSE 1) * nb - 1 |-> NonFinite]
  /\ info = 0
  /\ k = IF uplo = "U" THEN n ELSE 1
  /\ kw = 0 /\ imax = 0 /\ j = 0
  /\ kp = 0 /\ kstep = 0 /\ absakk = Zero /\ colmax = Zero /\ rowmax = Zero
  /\ pc = "main"
  /\ perm = [i \in 1 .. n |-> i]
  /\ last = NoStep
  /\ faults = {}
  /\ stalled = FALSE
  /\ undoReads = {}
  /\ DotIdle

\* ------------------------------------------------------ pivot decisions
\* Variants of the zero test that look at one of the two magnitudes only.
ColumnIsZeroByColmax(akk, cmax) == cmax = Zero
ColumnIsZeroByDiagonal(akk, cmax) == akk = Zero
\* max(absakk, colmax) == Zero
ColumnIsZero(akk, cmax) == RMax(akk, cmax) = Zero
\* absakk >= alpha * colmax
FirstTest(akk, cmax) == GeAlpha(akk, cmax)
\* absakk >= alpha * colmax * (colmax / rowmax)
SecondTest(akk, cmax, rmx) == GeAlpha(akk, RMul(cmax, RDiv(cmax, rmx)))
\* Variant of the third test with the comparison reversed.
ThirdTestReversed(wdiag, rmx) == ~GeAlpha(RAbs(wdiag), rmx)
\* abs(w[imax, column of the staged column imax]) >= alpha * rowmax
ThirdTest(wdiag, rmx) == GeAlpha(RAbs(wdiag), rmx)

\* Variant in which the zero column is committed like any 1-by-1 pivot.
AfterZeroCommits == "commit"
\* Where control goes once the column was found zero: the else branch that
\* interchanges and stores the factor column is not entered.
AfterZero == "store"

\* Variant that records the last zero column instead of the first.
SetInfoAlways(inf, kk) == kk
\* if (*info == 0) *info = k
SetInfo(inf, kk) == IF inf = 0 THEN kk ELSE inf

\* Variant that writes one entry only for a 2-by-2 block.
StoreIpivOnce(piv, kk, partner, step, second) ==
  IF step = 1 THEN [piv EXCEPT ![kk] = partner]
  ELSE [piv EXCEPT ![kk] = -partner]
\* ipiv after the step at k: upper mode writes k - 1 as the second entry of a
\* 2-by-2 block, lower mode k + 1.
StoreIpiv(piv, kk, partner, step, second) ==
  IF step = 1 THEN [piv EXCEPT ![kk] = partner]
  ELSE [piv EXCEPT ![kk] = -partner, ![second] = -partner]

\* perm after the interchange of positions a and b
Interchange(pm, a, b) == [pm EXCEPT ![a] = pm[b], ![b] = pm[a]]

\* ------------------------------------------------------- upper triangle
\* Variant that leaves the loop one column earlier.
UpperExitEarly(kk, nn, bb) == (kk <= nn - bb + 2 /\ bb < nn) \/ kk < 1
\* (k <= n - nb + 1 && nb < n) || k < 1
UpperExit(kk, nn, bb) == (kk <= nn - bb + 1 /\ bb < nn) \/ kk < 1

\* Top of the main loop: copy column K of A to column KW of W and update it,
\* then measure absakk, imax and colmax.
UpperStage ==
  /\ pc = "main" /\ uplo = "U"
  /\ ~UpperExit(k, n, nb)
  /\ LET kwN == nb + k - n
         w1 == Rcopy(k, A, (k - 1) * lda, 1, w, (kwN - 1) * ldw, 1)
         w2 == IF k < n
               THEN Rgemv(k, n - k, A, k * lda, lda, w1, (k - 1) + kwN * ldw, ldw,
                          w1, (kwN - 1) * ldw)
               ELSE w1
         imx == IF k > 1 THEN iRamax(k - 1, w2, (kwN - 1) * ldw, 1) ELSE imax
     IN  /\ kw' = kwN
         /\ w' = w2
         /\ kstep' = 1
         /\ absakk' = RAbs(w2[(k - 1) + (kwN - 1) * ldw])
         /\ imax' = imx
         /\ colmax' = IF k > 1 THEN RAbs(w2[(imx - 1) + (kwN - 1) * ldw]) ELSE Zero
  /\ last' = [NoStep EXCEPT !.k = k]
  /\ pc' = "pivot"
  /\ UNCHANGED <<uplo, n, nb, callerKb, kb, A, ipiv, info, k, j, kp, rowmax, A0,
                 perm, faults, stalled, undoReads, dotVars>>

\* The pivot decision; when the first test fails, column IMAX is copied to
\* column KW-1 of W and updated, and rowmax is measured.
UpperPivot ==
  /\ pc = "pivot" /\ uplo = "U"
  /\ IF ColumnIsZero(absakk, colmax)
     THEN \* Column K is zero: set INFO and continue
          /\ info' = SetInfo(info, k)
          /\ kp' = k
          /\ last' = [last EXCEPT !.kind = "zero"]
          /\ pc' = AfterZero
          /\ UNCHANGED <<w, rowmax, kstep, faults>>
     ELSE IF FirstTest(absakk, colmax)
     THEN /\ kp' = k
          /\ last' = [last EXCEPT !.kind = "first"]
          /\ pc' = "commit"
          /\ UNCHANGED <<w, rowmax, kstep, info, faults>>
     ELSE LET w3 == Rcopy(imax, A, (imax - 1) * lda, 1, w, (kw - 2) * ldw, 1)
              w4 == Rcopy(k - imax, A, (imax - 1) + imax * lda, lda,
                          w3, imax + (kw - 2) * ldw, 1)
              w5 == IF k < n
                    THEN Rgemv(k, n - k, A, k * lda, lda, w4, (imax - 1) + kw * ldw, ldw,
                               w4, (kw - 2) * ldw)
                    ELSE w4
              jmax1 == imax + iRamax(k - imax, w5, imax + (kw - 2) * ldw, 1)
              rowmax1 == RAbs(w5[(jmax1 - 1) + (kw - 2) * ldw])
              jmax2 == iRamax(imax - 1, w5, (kw - 2) * ldw, 1)
              rmax == IF imax > 1
                      THEN RMax(rowmax1, RAbs(w5[(jmax2 - 1) + (kw - 2) * ldw]))
                      ELSE rowmax1
              wdiag == w5[(imax - 1) + (kw - 2) * ldw]
              kind == IF SecondTest(absakk, colmax, rmax) THEN "second"
                      ELSE IF ThirdTest(wdiag, rmax) THEN "swap"
                      ELSE "block"
          IN  /\ rowmax' = rmax
              /\ kp' = IF kind = "second" THEN k ELSE imax
              /\ kstep' = IF kind = "block" THEN 2 ELSE kstep
              \* copy column KW-1 of W to column KW
              /\ w' = IF kind = "swap"
                      THEN Rcopy(k, w5, (kw - 2) * ldw, 1, w5, (kw - 1) * ldw, 1)
                      ELSE w5
              /\ faults' = IF rmax[1] = 0 \/ ~IsFinite(rmax)
                           THEN faults \cup {"realdiv"} ELSE faults
              /\ last' = [last EXCEPT !.kind = kind, !.wdiag = wdiag,
                                      !.woff = w[(imax - 1) + (kw - 1) * ldw]]
              /\ pc' = "commit"
              /\ info' = info
  /\ UNCHANGED <<uplo, n, nb, callerKb, kb, A, ipiv, k, kw, imax, j, absakk, colmax,
                 A0, perm, stalled, undoReads, dotVars>>

\* The interchange and the storing of the factor column(s) in A; skipped when
\* the column was found zero.  Then the details are stored in IPIV and K is
\* decreased.
UpperCommit ==
  /\ pc \in {"commit", "store"} /\ uplo = "U"
  /\ LET kk == k - kstep + 1
         kkw == nb + kk - n
         \* Copy non-updated column KK to column KP, interchange rows KK and KP
         a1 == [A EXCEPT ![(kp - 1) + (k - 1) * lda] = A[(kk - 1) + (k - 1) * lda]]
         a2 == Rcopy(k - 1 - kp, a1, kp + (kk - 1) * lda, 1, a1, (kp - 1) + kp * lda, lda)
         a3 == Rcopy(kp, a2, (kk - 1) * lda, 1, a2, (kp - 1) * lda, 1)
         a4 == IF kp # kk
               THEN Rswap(n - kk + 1, a3, (kk - 1) + (kk - 1) * lda, lda,
                          (kp - 1) + (kk - 1) * lda, lda)
               ELSE A
         w7 == IF kp # kk
               THEN Rswap(n - kk + 1, w, (kk - 1) + (kkw - 1) * ldw, ldw,
                          (kp - 1) + (kkw - 1) * ldw, ldw)
               ELSE w
         \* 1-by-1 pivot block: store U(k) in column k of A
         a5 == Rcopy(k, w7, (kw - 1) * ldw, 1, a4, (k - 1) * lda, 1)
         pivot == w7[(k - 1) + (kw - 1) * ldw]
         r1 == RDiv(One, pivot)
         a6 == Rscal(k - 1, r1, a5, (k - 1) * lda, 1)
         \* 2-by-2 pivot block: store U(k) and U(k-1) in columns k and k-1 of A
         d21 == w7[k - 2 + (kw - 1) * ldw]
         d11 == RDiv(w7[k - 1 + (kw - 1) * ldw], d21)
         d22 == RDiv(w7[k - 2 + (kw - 2) * ldw], d21)
         det == RSub(RMul(d11, d22), One)
         d21s == RDiv(RDiv(One, det), d21)
         a7 == [p \in DOMAIN a4 |->
                  IF k > 2 /\ p \in View(k - 2, (k - 2) * lda, 1)
                  THEN LET jr == p - (k - 2) * lda
                       IN  RMul(d21s, RSub(RMul(d11, w7[jr + (kw - 2) * ldw]),
                                           w7[jr + (kw - 1) * ldw]))
                  ELSE IF k > 2 /\ p \in View(k - 2, (k - 1) * lda, 1)
                  THEN LET jr == p - (k - 1) * lda
                       IN  RMul(d21s, RSub(RMul(d22, w7[jr + (kw - 1) * ldw]),
                                           w7[jr + (kw - 2) * ldw]))
                  ELSE a4[p]]
         \* Copy D(k) to A
         a8 == [a7 EXCEPT ![k - 2 + (k - 2) * lda] = w7[k - 2 + (kw - 2) * ldw],
                          ![k - 2 + (k - 1) * lda] = w7[k - 2 + (kw - 1) * ldw],
                          ![k - 1 + (k - 1) * lda] = w7[k - 1 + (kw - 1) * ldw]]
         divisors == IF kstep = 1 THEN {pivot}
                     ELSE IF k > 2 THEN {d21, det} ELSE {}
     IN  IF pc = "commit"
         THEN /\ A' = IF kstep = 1 THEN a6 ELSE a8
              /\ w' = w7
              /\ perm' = IF kp # kk THEN Interchange(perm, kk, kp) ELSE perm
              /\ faults' = IF \E d \in divisors : d[1] = 0 \/ ~IsFinite(d)
                           THEN faults \cup {"realdiv"} ELSE faults
              /\ last' = [last EXCEPT !.copied = TRUE, !.recip = (kstep = 1),
                                      !.pivot = IF kstep = 1 THEN pivot ELSE Zero,
                                      !.stored = TRUE]
         ELSE /\ last' = [last EXCEPT !.stored = TRUE]
              /\ UNCHANGED <<A, w, perm, faults>>
  /\ ipiv' = StoreIpiv(ipiv, k, kp, kstep, k - 1)
  /\ k' = k - kstep
  /\ pc' = "main"
  /\ UNCHANGED <<uplo, n, nb, callerKb, kb, info, kw, imax, j, kp, kstep, absakk,
                 colmax, rowmax, A0, stalled, undoReads, dotVars>>

\* Leaving the main loop (break) and entering the update loop:
\* j = (k - 1) / nb * nb + 1.  With nb = 0 the division is undefined: the
\* process is stopped by the trap, or the quotient is 0.
UpperBreak ==
  /\ pc = "main" /\ uplo = "U"
  /\ UpperExit(k, n, nb)
  /\ kw' = nb + k - n
  /\ IF nb = 0
     THEN /\ faults' = faults \cup {"intdiv"}
          /\ \/ pc' = "trap" /\ j' = j
             \/ pc' = "update" /\ j' = 0 * nb + 1
     ELSE /\ faults' = faults
          /\ pc' = "update"
          /\ j' = CDiv(k - 1, nb) * nb + 1
  /\ UNCHANGED <<kp, kstep, absakk, colmax, rowmax, uplo, n, nb, callerKb, kb, A, ipiv, w, info, k, imax, A0, perm,
                 last, stalled, undoReads, dotVars>>

\* Update the upper triangle of the diagonal block: columns jj .. last of it.
RECURSIVE UpperDiag(_, _, _, _)
UpperDiag(a, jv, jj, jend) ==
  IF jj > jend THEN a
  ELSE UpperDiag(Rgemv(jj - jv + 1, n - k, a, (jv - 1) + k * lda, lda,
                       w, (jj - 1) + kw * ldw, ldw, a, (jv - 1) + (jj - 1) * lda),
                 jv, jj + 1, jend)

\* One panel of the update loop: for (j = ...; j >= 1; j = j - nb)
UpperPanel ==
  /\ pc = "update" /\ uplo = "U"
  /\ j >= 1
  /\ LET jb == Min(nb, k - j + 1)
         a1 == UpperDiag(A, j, j, j + jb - 1)
     IN  A' = Rgemm(j - 1, jb, n - k, a1, k * lda, lda, w, (j - 1) + kw * ldw, ldw,
                    a1, (j - 1) * lda, lda)
  /\ j' = j - nb
  /\ stalled' = (stalled \/ j - nb = j)
  /\ UNCHANGED <<kp, kstep, absakk, colmax, rowmax, uplo, n, nb, callerKb, kb, ipiv, w, info, k, kw, imax, pc, A0,
                 perm, last, faults, undoReads, dotVars>>

\* The loop that partially undoes the interchanges in columns k+1:n, from
\* j = jv on.  g is the value a read of ipiv outside 1 .. n produces.
RECURSIVE UpperUndoLoop(_, _, _, _)
UpperUndoLoop(a, jv, reads, g) ==
  LET jj == jv
      jp0 == IF jv \in 1 .. n THEN ipiv[jv] ELSE g
      jp == IF jp0 < 0 THEN -jp0 ELSE jp0
      j1 == IF jp0 < 0 THEN jv + 2 ELSE jv + 1
      a1 == IF jp # jj /\ j1 <= n
            THEN Rswap(n - j1 + 1, a, (jp - 1) + (j1 - 1) * lda, lda,
                       (jj - 1) + (j1 - 1) * lda, lda)
            ELSE a
  IN  IF j1 > n THEN [A |-> a1, j |-> j1, reads |-> reads \cup {jv}]
      ELSE UpperUndoLoop(a1, j1, reads \cup {jv}, g)

\* End of the update loop, the un-interchange loop, kb = n - k and return.
UpperUndo ==
  /\ pc = "update" /\ uplo = "U"
  /\ j < 1
  /\ \E g \in (IF k + 1 \in 1 .. n THEN {0} ELSE Garbage) :
       LET u == UpperUndoLoop(A, k + 1, {}, g)
       IN  /\ A' = u.A /\ j' = u.j /\ undoReads' = u.reads
           /\ faults' = IF u.reads \subseteq 1 .. n THEN faults
                        ELSE faults \cup {"oob"}
  /\ kb' = n - k
  /\ pc' = "done"
  /\ UNCHANGED <<kp, kstep, absakk, colmax, rowmax, uplo, n, nb, callerKb, ipiv, w, info, k, kw, imax, A0, perm, last,
                 stalled, dotVars>>

\* ------------------------------------------------------- lower triangle
\* (k >= nb && nb < n) || k > n
LowerExit(kk, nn, bb) == (kk >= bb /\ bb < nn) \/ kk > nn

\* Top of the main loop: copy column K of A to column K of W and update it,
\* then measure absakk, imax and colmax.
LowerStage ==
  /\ pc = "main" /\ uplo # "U"
  /\ ~LowerExit(k, n, nb)
  /\ LET w1 == Rcopy(n - k + 1, A, (k - 1) + (k - 1) * lda, 1,
                     w, (k - 1) + (k - 1) * ldw, 1)
         w2 == Rgemv(n - k + 1, k - 1, A, k - 1, lda, w1, k - 1, ldw,
                     w1, (k - 1) + (k - 1) * ldw)
         imx == IF k < n THEN k + iRamax(n - k, w2, k + (k - 1) * ldw, 1) ELSE imax
     IN  /\ w' = w2
         /\ kstep' = 1
         /\ absakk' = RAbs(w2[(k - 1) + (k - 1) * ldw])
         /\ imax' = imx
         /\ colmax' = IF k < n THEN RAbs(w2[(imx - 1) + (k - 1) * ldw]) ELSE Zero
  /\ last' = [NoStep EXCEPT !.k = k]
  /\ pc' = "pivot"
  /\ UNCHANGED <<uplo, n, nb, callerKb, kb, A, ipiv, info, k, kw, j, kp, rowmax, A0,
                 perm, faults, stalled, undoReads, dotVars>>

\* The pivot decision; when the first test fails, column IMAX is copied to
\* column K+1 of W and updated, and rowmax is measured.
LowerPivot ==
  /\ pc = "pivot" /\ uplo # "U"
  /\ IF ColumnIsZero(absakk, colmax)
     THEN \* Column K is zero: set INFO and continue
          /\ info' = SetInfo(info, k)
          /\ kp' = k
          /\ last' = [last EXCEPT !.kind = "zero"]
          /\ pc' = AfterZero
          /\ UNCHANGED <<w, rowmax, kstep, faults>>
     ELSE IF FirstTest(absakk, colmax)
     THEN /\ kp' = k
          /\ last' = [last EXCEPT !.kind = "first"]
          /\ pc' = "commit"
          /\ UNCHANGED <<w, rowmax, kstep, info, faults>>
     ELSE LET w3 == Rcopy(imax - k, A, (imax - 1) + (k - 1) * lda, lda,
                          w, (k - 1) + k * ldw, 1)
              w4 == Rcopy(n - imax + 1, A, (imax - 1) + (imax - 1) * lda, 1,
                          w3, (imax - 1) + k * ldw, 1)
              w5 == Rgemv(n - k + 1, k - 1, A, k - 1, lda, w4, imax - 1, ldw,
                          w4, (k - 1) + k * ldw)
              jmax1 == k - 1 + iRamax(imax - k, w5, (k - 1) + k * ldw, 1)
              rowmax1 == RAbs(w5[(jmax1 - 1) + k * ldw])
              jmax2 == imax + iRamax(n - imax, w5, imax + k * ldw, 1)
              rmax == IF imax < n
                      THEN RMax(rowmax1, RAbs(w5[(jmax2 - 1) + k * ldw]))
                      ELSE rowmax1
              wdiag == w5[imax - 1 + k * ldw]
              kind == IF SecondTest(absakk, colmax, rmax) THEN "second"
                      ELSE IF ThirdTest(wdiag, rmax) THEN "swap"
                      ELSE "block"
          IN  /\ rowmax' = rmax
              /\ kp' = IF kind = "second" THEN k ELSE imax
              /\ kstep' = IF kind = "block" THEN 2 ELSE kstep
              \* copy column K+1 of W to column K
              /\ w' = IF kind = "swap"
                      THEN Rcopy(n - k + 1, w5, k - 1 + k * ldw, 1,
                                 w5, (k - 1) + (k - 1) * ldw, 1)
                      ELSE w5
              /\ faults' = IF rmax[1] = 0 \/ ~IsFinite(rmax)
                           THEN faults \cup {"realdiv"} ELSE faults
              /\ last' = [last EXCEPT !.kind = kind, !.wdiag = wdiag,
                                      !.woff = w[(imax - 1) + (k - 1) * ldw]]
              /\ pc' = "commit"
              /\ info' = info
  /\ UNCHANGED <<uplo, n, nb, callerKb, kb, A, ipiv, k, kw, imax, j, absakk, colmax,
                 A0, perm, stalled, undoReads, dotVars>>

\* The interchange and the storing of the factor column(s) in A; skipped when
\* the column was found zero.  Then the details are stored in IPIV and K is
\* increased.
LowerCommit ==
  /\ pc \in {"commit", "store"} /\ uplo # "U"
  /\ LET kk == k + kstep - 1
         \* Copy non-updated column KK to column KP, interchange rows KK and KP
         a1 == [A EXCEPT ![(kp - 1) + (k - 1) * lda] = A[(kk - 1) + (k - 1) * lda]]
         a2 == Rcopy(kp - k - 1, a1, k + (kk - 1) * lda, 1, a1, (kp - 1) + k * lda, lda)
         a3 == Rcopy(n - kp + 1, a2, (kp - 1) + (kk - 1) * lda, 1,
                     a2, (kp - 1) + (kp - 1) * lda, 1)
         a4 == IF kp # kk THEN Rswap(kk, a3, kk - 1, lda, kp - 1, lda) ELSE A
         w7 == IF kp # kk THEN Rswap(kk, w, kk - 1, ldw, kp - 1, ldw) ELSE w
         \* 1-by-1 pivot block: store L(k) in column k of A
         a5 == Rcopy(n - k + 1, w7, (k - 1) + (k - 1) * ldw, 1,
                     a4, (k - 1) + (k - 1) * lda, 1)
         pivot == w7[(k - 1) + (k - 1) * ldw]
         r1 == RDiv(One, pivot)
         a6 == IF k < n THEN Rscal(n - k, r1, a5, k + (k - 1) * lda, 1) ELSE a5
         \* 2-by-2 pivot block: store L(k) and L(k+1) in columns k and k+1 of A
         d21 == w7[k + (k - 1) * ldw]
         d11 == RDiv(w7[k + k * ldw], d21)
         d22 == RDiv(w7[(k - 1) + (k - 1) * ldw], d21)
         det == RSub(RMul(d11, d22), One)
         d21s == RDiv(RDiv(One, det), d21)
         a7 == [p \in DOMAIN a4 |->
                  IF k < n - 1 /\ p \in View(n - k - 1, (k + 1) + (k - 1) * lda, 1)
                  THEN LET jr == p - (k - 1) * lda
                       IN  RMul(d21s, RSub(RMul(d11, w7[jr + (k - 1) * ldw]),
                                           w7[jr + k * ldw]))
                  ELSE IF k < n - 1 /\ p \in View(n - k - 1, (k + 1) + k * lda, 1)
                  THEN LET jr == p - k * lda
                       IN  RMul(d21s, RSub(RMul(d22, w7[jr + k * ldw]),
                                           w7[jr + (k - 1) * ldw]))
                  ELSE a4[p]]
         \* Copy D(k) to A
         a8 == [a7 EXCEPT ![(k - 1) + (k - 1) * lda] = w7[(k - 1) + (k - 1) * ldw],
                          ![k + (k - 1) * lda] = w7[k + (k - 1) * ldw],
                          ![k + k * lda] = w7[k + k * ldw]]
         divisors == IF kstep = 1 THEN (IF k < n THEN {pivot} ELSE {})
                     ELSE IF k < n - 1 THEN {d21, det} ELSE {}
     IN  IF pc = "commit"
         THEN /\ A' = IF kstep = 1 THEN a6 ELSE a8
              /\ w' = w7
              /\ perm' = IF kp # kk THEN Interchange(perm, kk, kp) ELSE perm
              /\ faults' = IF \E d \in divisors : d[1] = 0 \/ ~IsFinite(d)
                           THEN faults \cup {"realdiv"} ELSE faults
              /\ last' = [last EXCEPT !.copied = TRUE, !.recip = (kstep = 1 /\ k < n),
                                      !.pivot = IF kstep = 1 THEN pivot ELSE Zero,
                                      !.stored = TRUE]
         ELSE /\ last' = [last EXCEPT !.stored = TRUE]
              /\ UNCHANGED <<A, w, perm, faults>>
  /\ ipiv' = StoreIpiv(ipiv, k, kp, kstep, k + 1)
  /\ k' = k + kstep
  /\ pc' = "main"
  /\ UNCHANGED <<uplo, n, nb, callerKb, kb, info, kw, imax, j, kp, kstep, absakk,
                 colmax, rowmax, A0, stalled, undoReads, dotVars>>

\* Leaving the main loop (break) and entering the update loop: j = k.
LowerBreak ==
  /\ pc = "main" /\ uplo # "U"
  /\ LowerExit(k, n, nb)
  /\ pc' = "update"
  /\ j' = k
  /\ UNCHANGED <<kp, kstep, absakk, colmax, rowmax, uplo, n, nb, callerKb, kb, A, ipiv, w, info, k, kw, imax, A0, perm,
                 last, faults, stalled, undoReads, dotVars>>

\* Update the lower triangle of the diagonal block: columns jj .. last of it.
RECURSIVE LowerDiag(_, _, _, _)
LowerDiag(a, jv, jb, jj) ==
  IF jj > jv + jb - 1 THEN a
  ELSE LowerDiag(Rgemv(jv + jb - jj, k - 1, a, jj - 1, lda, w, jj - 1, ldw,
                       a, jj - 1 + (jj - 1) * lda),
                 jv, jb, jj + 1)

\* One panel of the update loop: for (j = k; j <= n; j = j + nb)
LowerPanel ==
  /\ pc = "update" /\ uplo # "U"
  /\ j <= n
  /\ LET jb == Min(nb, n - j + 1)
         a1 == LowerDiag(A, j, jb, j)
     IN  A' = IF j + jb <= n
              THEN Rgemm(n - j - jb + 1, jb, k - 1, a1, j + jb - 1, lda, w, j - 1, ldw,
                         a1, (j + jb - 1) + (j - 1) * lda, lda)
              ELSE a1
  /\ j' = j + nb
  /\ stalled' = (stalled \/ j + nb = j)
  /\ UNCHANGED <<kp, kstep, absakk, colmax, rowmax, uplo, n, nb, callerKb, kb, ipiv, w, info, k, kw, imax, pc, A0,
                 perm, last, faults, undoReads, dotVars>>

\* The loop that partially undoes the interchanges in columns 1:k-1, from
\* j = jv on.  g is the value a read of ipiv outside 1 .. n produces.
RECURSIVE LowerUndoLoop(_, _, _, _)
LowerUndoLoop(a, jv, reads, g) ==
  LET jj == jv
      jp0 == IF jv \in 1 .. n THEN ipiv[jv] ELSE g
      jp == IF jp0 < 0 THEN -jp0 ELSE jp0
      j1 == IF jp0 < 0 THEN jv - 2 ELSE jv - 1
      a1 == IF jp # jj /\ j1 >= 1
            THEN Rswap(j1, a, jp - 1, lda, jj - 1, lda)
            ELSE a
  IN  IF j1 < 1 THEN [A |-> a1, j |-> j1, reads |-> reads \cup {jv}]
      ELSE LowerUndoLoop(a1, j1, reads \cup {jv}, g)

\* End of the update loop, the un-interchange loop, kb = k - 1 and return.
LowerUndo ==
  /\ pc = "update" /\ uplo # "U"
  /\ j > n
  /\ \E g \in (IF k - 1 \in 1 .. n THEN {0} ELSE Garbage) :
       LET u == LowerUndoLoop(A, k - 1, {}, g)
       IN  /\ A' = u.A /\ j' = u.j /\ undoReads' = u.reads
           /\ faults' = IF u.reads \subseteq 1 .. n THEN faults
                        ELSE faults \cup {"oob"}
  /\ kb' = k - 1
  /\ pc' = "done"
  /\ UNCHANGED <<kp, kstep, absakk, colmax, rowmax, uplo, n, nb, callerKb, ipiv, w, info, k, kw, imax, A0, perm, last,
                 stalled, dotVars>>

Next ==
  \/ UpperStage \/ UpperPivot \/ UpperCommit \/ UpperBreak \/ UpperPanel \/ UpperUndo
  \/ LowerStage \/ LowerPivot \/ LowerCommit \/ LowerBreak \/ LowerPanel \/ LowerUndo
Spec == Init /\ [][Next]_vars

\* ------------------------------------------------------------------ Rdot
\* mpreal values are modelled as integers: sums and products are exact.
\* No Rlasyf call is under way.
LasyfIdle ==
  /\ uplo = "U" /\ n = 0 /\ nb = 0 /\ callerKb = 0 /\ kb = 0
  /\ A = <<>> /\ ipiv = <<>> /\ w = <<>> /\ info = 0
  /\ k = 0 /\ kw = 0 /\ imax = 0 /\ j = 0
  /\ kp = 0 /\ kstep = 0 /\ absakk = Zero /\ colmax = Zero /\ rowmax = Zero
  /\ pc = "idle" /\ A0 = <<>> /\ perm = <<>> /\ last = NoStep
  /\ faults = {} /\ stalled = FALSE /\ undoReads = {}

Threads == 1 .. nthreads

InitDot ==
  /\ LasyfIdle
  /\ dn \in 0 .. MaxLen
  /\ dx \in [0 .. dn - 1 -> DotVals]
  /\ dy \in [0 .. dn - 1 -> DotVals]
  /\ incx \in {1, -1}
  /\ incy \in {1, -1}
  /\ nthreads \in 1 .. MaxThreads
  /\ ix = 0 /\ iy = 0 /\ di = 0
  /\ todo = {}
  /\ templ = [t \in Threads |-> 0]
  /\ hits = [i \in 0 .. dn - 1 |-> 0]
  /\ temp = 0
  /\ merges = [t \in Threads |-> 0]
  /\ owner = 0
  /\ reg = [t \in Threads |-> 0]
  /\ wpc = [t \in Threads |-> "out"]
  /\ dpc = "entry"
  /\ ret = 0

\* temp = 0.0; if (n <= 0) return temp;
DotEmpty ==
  /\ dpc = "entry" /\ dn <= 0
  /\ temp' = 0
  /\ ret' = 0
  /\ dpc' = "done"
  /\ UNCHANGED <<dn, dx, dy, incx, incy, nthreads, ix, iy, di, todo, templ, hits,
                 merges, owner, reg, wpc, lasyfVars>>

\* The start offsets, temp = 0.0 and the choice of the path.
DotEnter ==
  /\ dpc = "entry" /\ dn > 0
  /\ ix' = IF incx < 0 THEN (-dn + 1) * incx ELSE 0
  /\ iy' = IF incy < 0 THEN (-dn + 1) * incy ELSE 0
  /\ temp' = 0
  /\ IF incx = 1 /\ incy = 1
     THEN /\ dpc' = "parallel"
          /\ todo' = 0 .. dn - 1
          /\ wpc' = [t \in Threads |-> "start"]
     ELSE /\ dpc' = "seq"
          /\ UNCHANGED <<todo, wpc>>
  /\ di' = 0
  /\ UNCHANGED <<dn, dx, dy, incx, incy, nthreads, templ, hits, merges, owner, reg,
                 ret, lasyfVars>>

\* One iteration of the sequential loop: temp += dx[ix] * dy[iy].
DotSeqStep ==
  /\ dpc = "seq" /\ di < dn
  /\ temp' = temp + dx[ix] * dy[iy]
  /\ hits' = [hits EXCEPT ![di] = @ + 1]
  /\ ix' = ix + incx
  /\ iy' = iy + incy
  /\ di' = di + 1
  /\ UNCHANGED <<dn, dx, dy, incx, incy, nthreads, todo, templ, merges, owner, reg,
                 wpc, dpc, ret, lasyfVars>>

\* A thread of the team starts the parallel region: templ = 0.0.
WorkerStart(t) ==
  /\ dpc = "parallel" /\ wpc[t] = "start"
  /\ templ' = [templ EXCEPT ![t] = 0]
  /\ wpc' = [wpc EXCEPT ![t] = "for"]
  /\ UNCHANGED <<dn, dx, dy, incx, incy, nthreads, ix, iy, di, todo, hits, temp,
                 merges, owner, reg, dpc, ret, lasyfVars>>

\* The partial sum after iteration i: templ += dx[i] * dy[i].
Accumulate(partial, i) == partial + dx[i] * dy[i]

\* The work-sharing loop hands iteration i to thread t, which executes it.
\* Which thread gets which iteration is up to the schedule.
WorkerIterate(t) ==
  /\ dpc = "parallel" /\ wpc[t] = "for"
  /\ \E i \in todo :
       /\ todo' = todo \ {i}
       /\ templ' = [templ EXCEPT ![t] = Accumulate(@, i)]
       /\ hits' = [hits EXCEPT ![i] = @ + 1]
  /\ UNCHANGED <<dn, dx, dy, incx, incy, nthreads, ix, iy, di, temp, merges, owner,
                 reg, wpc, dpc, ret, lasyfVars>>

\* No iteration is left for thread t: it waits at the barrier that ends the
\* omp for construct.
WorkerArrive(t) ==
  /\ dpc = "parallel" /\ wpc[t] = "for"
  /\ todo = {}
  /\ wpc' = [wpc EXCEPT ![t] = "barrier"]
  /\ UNCHANGED <<dn, dx, dy, incx, incy, nthreads, ix, iy, di, todo, templ, hits,
                 temp, merges, owner, reg, dpc, ret, lasyfVars>>

\* Variant without mutual exclusion.
MayEnterAlways(holder) == TRUE
\* #pragma omp critical: a thread may enter when no thread is inside.
MayEnter(holder) == holder = 0

\* Thread t leaves the barrier (every thread has arrived) and enters the
\* critical section, where it reads temp.
WorkerEnter(t) ==
  /\ dpc = "parallel" /\ wpc[t] = "barrier"
  /\ \A u \in Threads : wpc[u] \notin {"start", "for"}
  /\ MayEnter(owner)
  /\ owner' = t
  /\ reg' = [reg EXCEPT ![t] = temp]
  /\ wpc' = [wpc EXCEPT ![t] = "critical"]
  /\ UNCHANGED <<dn, dx, dy, incx, incy, nthreads, ix, iy, di, todo, templ, hits,
                 temp, merges, dpc, ret, lasyfVars>>

\* temp += templ: thread t writes the sum back and leaves the section.
WorkerMerge(t) ==
  /\ dpc = "parallel" /\ wpc[t] = "critical"
  /\ temp' = reg[t] + templ[t]
  /\ merges' = [merges EXCEPT ![t] = @ + 1]
  /\ owner' = IF owner = t THEN 0 ELSE owner
  /\ wpc' = [wpc EXCEPT ![t] = "end"]
  /\ UNCHANGED <<dn, dx, dy, incx, incy, nthreads, ix, iy, di, todo, templ, hits,
                 reg, dpc, ret, lasyfVars>>

\* The threads the barrier at the end of the parallel region waits for.
Joined == \A t \in Threads : wpc[t] = "end"

\* return temp, after the parallel region or after the sequential loop.
DotReturn ==
  /\ \/ dpc = "parallel" /\ Joined
     \/ dpc = "seq" /\ di >= dn
  /\ ret' = temp
  /\ dpc' = "done"
  /\ UNCHANGED <<dn, dx, dy, incx, incy, nthreads, ix, iy, di, todo, templ, hits,
                 temp, merges, owner, reg, wpc, lasyfVars>>

NextDot ==
  \/ DotEmpty \/ DotEnter \/ DotSeqStep \/ DotReturn
  \/ \E t \in Threads :
       \/ WorkerStart(t) \/ WorkerIterate(t) \/ WorkerArrive(t)
       \/ WorkerEnter(t) \/ WorkerMerge(t)
SpecDot == InitDot /\ [][NextDot]_vars

\* ================================================================ claims
\* The columns committed by the main loop, read off the frontier k.
Committed == IF uplo = "U" THEN n - k ELSE k - 1
Processed == IF uplo = "U" THEN k + 1 .. n ELSE 1 .. k - 1

\* Determinant of the submatrix of S on the rows and columns listed.
Drop(seq, i) == SubSeq(seq, 1, i - 1) \o SubSeq(seq, i + 1, Len(seq))
RECURSIVE Det(_, _, _), DetSum(_, _, _, _)
Det(S, rows, cols) ==
  IF Len(rows) = 0 THEN 1 ELSE DetSum(S, rows, cols, 1)
DetSum(S, rows, cols, c) ==
  IF c > Len(cols) THEN 0
  ELSE (IF c % 2 = 1 THEN 1 ELSE -1) * S[<<rows[1], cols[c]>>]
         * Det(S, Tail(rows), Drop(cols, c))
       + DetSum(S, rows, cols, c + 1)
Upto(m) == [i \in 1 .. m |-> i]
\* Sylvester's criterion: every leading principal minor is positive.
IsSPD(S, m) == \A q \in 1 .. m : Det(S, Upto(q), Upto(q)) > 0
AllZero(S, m) == \A r, c \in 1 .. m : S[<<r, c>>] = 0
\* Row and column p of S are zero and the rest of S is nonsingular.
ZeroAt(S, m, p) ==
  /\ \A c \in 1 .. m : S[<<p, c>>] = 0 /\ S[<<c, p>>] = 0
  /\ Det(S, Drop(Upto(m), p), Drop(Upto(m), p)) # 0

\* ---------------------------------------------------------------- C1
\* C1 as stated: for a symmetric positive-definite matrix and nb = n, the
\* call ends with all n columns committed, info = 0 and ipiv[i] = i for
\* every i.
C1_NoInterchange ==
  (pc = "done" /\ n >= 1 /\ nb = n /\ IsSPD(A0, n))
    => (Committed = n /\ info = 0 /\ \A i \in 1 .. n : ipiv[i] = i)

\* C1 amended: for a symmetric positive-definite matrix and nb = n, every
\* step uses a 1-by-1 pivot, possibly with an interchange: the call ends with
\* all n columns committed, info = 0 and every ipiv[i] positive, a partner
\* on the not yet processed side of i.
C1_OneByOnePivots ==
  (pc = "done" /\ n >= 1 /\ nb = n /\ IsSPD(A0, n))
    => /\ Committed = n /\ info = 0
       /\ \A i \in 1 .. n :
            IF uplo = "U" THEN ipiv[i] \in 1 .. i ELSE ipiv[i] \in i .. n

\* A positive-definite matrix was factored with an interchange.
C1_Witness ==
  /\ pc = "done" /\ n >= 2 /\ nb = n /\ IsSPD(A0, n)
  /\ \E i \in 1 .. n : ipiv[i] # i

\* ---------------------------------------------------------------- C2
\* C2: when the call has returned, the caller's kb variable holds the number
\* of columns the call committed.
C2_KbIsOutput ==
  pc = "done" => callerKb = Committed

\* ---------------------------------------------------------------- C3
\* C3: with nb = 0 or n <= 0 the call divides by no zero index, every panel
\* of the update loop advances j, the process is not stopped, and the call
\* ends with kb = 0 and info = 0.
C3_Degenerate ==
  (nb = 0 \/ n <= 0)
    => /\ "intdiv" \notin faults
       /\ ~stalled
       /\ pc # "trap"
       /\ pc = "done" => (kb = 0 /\ info = 0)

\* ---------------------------------------------------------------- C4
\* C4 as stated: the zero matrix in upper mode with nb = n ends without a
\* division by zero, with all n columns consumed and info = 1.
C4_InfoIsOne ==
  (pc = "done" /\ uplo = "U" /\ n >= 1 /\ nb = n /\ AllZero(A0, n))
    => ("realdiv" \notin faults /\ "intdiv" \notin faults
        /\ Committed = n /\ info = 1)

\* C4 amended: the zero matrix in upper mode with nb = n ends without a
\* division by zero, with all n columns consumed and info = n, the column
\* the backward traversal meets first.
C4_InfoIsN ==
  (pc = "done" /\ uplo = "U" /\ n >= 1 /\ nb = n /\ AllZero(A0, n))
    => ("realdiv" \notin faults /\ "intdiv" \notin faults
        /\ Committed = n /\ info = n)

\* The scenario of the specification: n = 3, upper mode, A entirely zero.
C4_Witness ==
  pc = "done" /\ uplo = "U" /\ n = 3 /\ nb = 3 /\ AllZero(A0, n) /\ info = 3

\* ---------------------------------------------------------------- C5
\* C5 as stated: when row and column p are zero and the rest is
\* nonsingular, the call with nb = n ends with info = p.
C5_InfoIsP ==
  \A p \in 1 .. n :
    (pc = "done" /\ nb = n /\ ZeroAt(A0, n, p)) => info = p

\* C5 amended: info is the position at which the zero row and column stand
\* when the frontier reaches them, i.e. the position the interchanges have
\* moved p to; it differs from p only after a 2-by-2 pivot step.
C5_InfoIsMovedP ==
  \A p \in 1 .. n :
    (pc = "done" /\ nb = n /\ ZeroAt(A0, n, p))
      => /\ info \in 1 .. n
         /\ perm[info] = p
         /\ info # p => \E i \in 1 .. n : ipiv[i] < 0

\* The zero column was moved by a 2-by-2 pivot step before it was met.
C5_Witness ==
  \E p \in 1 .. n :
    pc = "done" /\ nb = n /\ ZeroAt(A0, n, p) /\ info \in 1 .. n /\ info # p

\* ---------------------------------------------------------------- C6
\* The sequential sum of dx[i] * dy[i] over i = 0 .. m - 1.
RECURSIVE SumTo(_)
SumTo(m) == IF m <= 0 THEN 0 ELSE SumTo(m - 1) + dx[m - 1] * dy[m - 1]

\* C6: on the unit-stride path with n >= 1, whatever the number of threads and
\* the interleaving, no index is accumulated twice and no thread merges
\* twice; when Rdot has returned every index was accumulated exactly once,
\* every thread merged exactly once and the value returned is the sequential
\* sum.
C6_ParallelSum ==
  (incx = 1 /\ incy = 1 /\ dn >= 1 /\ dpc # "entry")
    => /\ \A i \in 0 .. dn - 1 : hits[i] <= 1
       /\ \A t \in Threads : merges[t] <= 1
       /\ dpc = "done"
            => /\ \A i \in 0 .. dn - 1 : hits[i] = 1
               /\ \A t \in Threads : merges[t] = 1
               /\ ret = SumTo(dn)

\* Two threads each accumulated a nonzero partial sum and Rdot returned.
C6_Witness ==
  /\ dpc = "done" /\ incx = 1 /\ incy = 1 /\ nthreads = 2 /\ dn >= 2
  /\ \A t \in Threads : templ[t] # 0 /\ merges[t] = 1
  /\ ret = SumTo(dn)

\* ---------------------------------------------------------------- C7
\* C7: between the steps of the main loop and up to the return of the call,
\* every ipiv entry of a processed column holds what the call wrote (a
\* positive partner index, or a negative value shared with the adjacent
\* processed entry of the same 2-by-2 block), and every ipiv entry of an
\* unprocessed column holds the value from before the call.
C7_IpivFrame ==
  pc \in {"main", "update", "done"}
    => \A i \in 1 .. n :
         IF i \in Processed
         THEN \/ ipiv[i] \in 1 .. n
              \/ /\ -ipiv[i] \in 1 .. n
                 /\ \E i2 \in {i - 1, i + 1} \cap Processed : ipiv[i2] = ipiv[i]
         ELSE ipiv[i] \in IpivBefore

\* A call that committed a 2-by-2 block and left a column unprocessed.
C7_Witness ==
  /\ pc = "done" /\ n >= 1
  /\ \E i \in Processed : ipiv[i] < 0
  /\ \E i \in 1 .. n : i \notin Processed

\* ---------------------------------------------------------------- C8
\* C8 as stated: for n >= 1 and nb >= 1, once the main loop is left, fewer
\* than nb columns are committed only if all n columns are.
C8_BlockExhausted ==
  (pc \in {"update", "done"} /\ n >= 1 /\ nb >= 1)
    => (Committed < nb => Committed = n)

\* C8 amended: for n >= 1 and nb >= 1, once the main loop is left, all n
\* columns are committed when nb >= n, and nb - 1 or nb columns are committed
\* when nb < n: the loop is left as soon as nb - 1 columns are committed.
C8_BlockMinusOne ==
  (pc \in {"update", "done"} /\ n >= 1 /\ nb >= 1)
    => IF nb >= n THEN Committed = n
       ELSE Committed \in {nb - 1, nb}

\* The loop was left with nb - 1 committed columns, short of the matrix end.
C8_Witness ==
  pc = "done" /\ nb >= 2 /\ nb < n /\ Committed = nb - 1

\* ---------------------------------------------------------------- C9
\* The step is past the second test: column imax is staged and the choice is
\* between the 1-by-1 interchange and the 2-by-2 block.
PastSecondTest == pc = "commit" /\ last.kind \in {"swap", "block"}
\* The diagonal entry (imax, imax) in the staged column imax of W.
StagedDiagonal ==
  IF uplo = "U" THEN w[(imax - 1) + (kw - 2) * ldw] ELSE w[(imax - 1) + k * ldw]

\* C9 as stated: past the second test the 1-by-1 interchange is taken exactly
\* when |staged value at (imax, k)| >= alpha * rowmax, the 2-by-2 block
\* otherwise.
C9_ComparesOffDiagonal ==
  PastSecondTest
    => /\ kp = imax
       /\ kstep = (IF GeAlpha(RAbs(last.woff), rowmax) THEN 1 ELSE 2)

\* C9 amended: past the second test the 1-by-1 interchange of k and imax is
\* taken exactly when |staged value at (imax, imax)| >= alpha * rowmax, the
\* diagonal entry of the staged column imax, and the 2-by-2 block otherwise;
\* the staged value at (imax, k) has magnitude colmax and is not compared.
C9_ComparesDiagonal ==
  PastSecondTest
    => /\ kp = imax
       /\ kstep = (IF GeAlpha(RAbs(StagedDiagonal), rowmax) THEN 1 ELSE 2)
       /\ RAbs(last.woff) = colmax

\* A 2-by-2 block is chosen although |W(imax, k)| >= alpha * rowmax.
C9_Witness ==
  /\ PastSecondTest /\ kstep = 2
  /\ GeAlpha(RAbs(last.woff), rowmax)
  /\ ~GeAlpha(RAbs(StagedDiagonal), rowmax)

\* --------------------------------------------------------------- C10
\* The step at last.k found its staged column zero and has ended.
ZeroStepDone == last.kind = "zero" /\ last.stored

\* C10 as stated: the step that finds column k zero copies the staged column
\* from W into A and computes the reciprocal of the zero pivot, a division
\* by zero.
C10_ZeroPivotDivides ==
  ZeroStepDone => (last.copied /\ last.recip /\ "realdiv" \in faults)

\* The column staged at k was found zero and the step has not ended yet.
InZeroStep == last.kind = "zero" /\ ~last.stored /\ pc \in {"commit", "store"}

\* C10 amended: the step that finds column k zero skips the interchange and
\* the storing of the factor column: it leaves A and W as they are (nothing
\* is copied from W into A, column k of A keeps its non-updated values),
\* computes no reciprocal and divides nothing by zero; it only records info,
\* stores ipiv[k] = k and advances the frontier by one.
C10_ZeroPivotSkips ==
  [][InZeroStep
       => /\ A' = A /\ w' = w /\ perm' = perm
          /\ faults' = faults
          /\ ~last'.copied /\ ~last'.recip /\ last'.stored
          /\ info \in 1 .. n /\ info' = info
          /\ ipiv' = [ipiv EXCEPT ![k] = k]
          /\ k' = (IF uplo = "U" THEN k - 1 ELSE k + 1)]_vars

\* A zero column that has a column to scale: upper mode k > 1, lower k < n.
C10_Witness ==
  /\ ZeroStepDone /\ n >= 2 /\ info = last.k
  /\ last.k = (IF uplo = "U" THEN n ELSE 1)

\* --------------------------------------------------------------- C11
\* C11: for n >= 0 and nb >= 1, every index at which the un-interchange loop
\* reads ipiv lies in 1 .. n and is the position of a column committed by
\* this call; when no column was committed the loop reads no ipiv entry.
C11_UndoReadsCommitted ==
  (pc = "done" /\ nb >= 1)
    => /\ undoReads \subseteq 1 .. n
       /\ undoReads \subseteq Processed
       /\ "oob" \notin faults
       /\ Committed = 0 => undoReads = {}

\* No column was committed and the loop read ipiv one place past the
\* frontier, outside 1 .. n.
C11_Witness ==
  /\ pc = "done" /\ n >= 2 /\ nb >= 1 /\ Committed = 0
  /\ undoReads = {IF uplo = "U" THEN n + 1 ELSE 0}
  /\ "oob" \in faults
====
